---------------------------- MODULE Spec2Model ----------------------------
(***************************************************************************)
(* Model of the numeric pipeline of Predictive_Maintenance_of_Meters:      *)
(*   equip/spice_runner/run_ngspice.py   parse_printed_table               *)
(*   equip/emulator/sensor_emulator.py   run_emulator and the emulate_*    *)
(*   equip/ingest/unify_logger.py        unify                             *)
(*   equip/ml/features.py                windowed_features,                *)
(*                                       extract_basic_stats,              *)
(*                                       signals_to_feature_vector         *)
(*   equip/ml/predict.py                 the script body and sanitize_json *)
(*                                                                         *)
(* Conventions.  A Python float is a record: [k |-> "fin", num, den] is    *)
(* the exact rational num/den (den > 0, lowest terms), [k |-> "nan"] is    *)
(* NaN, and the irrational results of sqrt and of m3 / m2**1.5 are kept    *)
(* symbolically ("sqrt", "skew").  A text token is a sequence of           *)
(* one-character strings, a line is the sequence of its whitespace         *)
(* separated tokens (what line.strip() followed by re.split(r'\s+', ...)   *)
(* yields; the blank line is << >>), a text is a sequence of lines.  A     *)
(* Python dict is a function on its key set; where the key order matters   *)
(* it is kept beside it.  A raised exception is the "err" field of the     *)
(* value an operator returns.                                              *)
(***************************************************************************)
EXTENDS Integers, Sequences, FiniteSets, TLC

VARIABLES
    stage,        \* which entry point this run exercises
    pc,           \* "ready" before the call, "done" after it returned or raised
    out_txt,      \* run_ngspice.py: the text of the simulator output file
    csv_file,     \* run_ngspice.py: simdata.csv
    json_file,    \* run_ngspice.py: simdata.json
    parse_ret,    \* run_ngspice.py: what parse_printed_table returned or raised
    simdata,      \* sensor_emulator.py: the loaded simdata.json
    mapping,      \* sensor_emulator.py: run_emulator's mapping argument
    sensors,      \* sensor_emulator.py: outdict as written to sensors.json
    d,            \* unify_logger.py: the loaded sensors.json
    rows,         \* unify_logger.py: the rows written to unified_log.json
    series,       \* features.py: windowed_features' series
    window_size,  \* features.py: windowed_features' window_size
    step,         \* features.py: windowed_features' step
    wf_out,       \* features.py: what windowed_features returned
    signals,      \* features.py / predict.py: the channel arrays
    fv_out,       \* features.py: what signals_to_feature_vector returned or raised
    feats,        \* predict.py: feats after sanitize_json, or the error raised
    scipy_legacy  \* whether the installed scipy predates the NaN-on-constant rule

vars == <<stage, pc, out_txt, csv_file, json_file, parse_ret, simdata, mapping,
          sensors, d, rows, series, window_size, step, wf_out, signals, fv_out,
          feats, scipy_legacy>>

-----------------------------------------------------------------------------
(* Bounds of the model *)

MaxLines == 3
MaxSamples == 2
MaxLen == 3
MaxWin == 3
MaxStep == 2

-----------------------------------------------------------------------------
(* Python floats as exact values *)

Abs(x) == IF x < 0 THEN -x ELSE x

RECURSIVE GCD(_, _)
GCD(a, b) == IF b = 0 THEN a ELSE GCD(b, a % b)

\* the rational n/dn in lowest terms with a positive denominator
F(n, dn) ==
    LET g == GCD(Abs(n), Abs(dn))
        s == IF dn < 0 THEN -1 ELSE 1
    IN [k |-> "fin", num |-> s * (n \div g), den |-> s * (dn \div g)]

NaN == [k |-> "nan"]

FInt(n) == F(n, 1)
FAdd(a, b) == F(a.num * b.den + b.num * a.den, a.den * b.den)
FSub(a, b) == F(a.num * b.den - b.num * a.den, a.den * b.den)
FMul(a, b) == F(a.num * b.num, a.den * b.den)
FAbs(a) == F(Abs(a.num), a.den)
FLess(a, b) == a.num * b.den < b.num * a.den

RECURSIVE Pow(_, _)
Pow(b, e) == IF e = 0 THEN 1 ELSE b * Pow(b, e - 1)

\* a value that is neither NaN nor infinite
IsFinite(v) == v.k # "nan"

-----------------------------------------------------------------------------
(* run_ngspice.py: text, tokens and float() *)

StartsWith(s, p) == Len(s) >= Len(p) /\ SubSeq(s, 1, Len(p)) = p

\* Python's `p in s` for strings
Contains(s, p) ==
    \E i \in 1..(Len(s) - Len(p) + 1) : SubSeq(s, i, i + Len(p) - 1) = p

\* str.replace(a, b) for one-character a and b
Replace(s, a, b) == [i \in 1..Len(s) |-> IF s[i] = a THEN b ELSE s[i]]

Digits == {"0", "1", "2", "3", "4", "5", "6", "7", "8", "9"}

DigitVal(c) ==
    CASE c = "0" -> 0 [] c = "1" -> 1 [] c = "2" -> 2 [] c = "3" -> 3
      [] c = "4" -> 4 [] c = "5" -> 5 [] c = "6" -> 6 [] c = "7" -> 7
      [] c = "8" -> 8 [] c = "9" -> 9

RECURSIVE DigitsValue(_)
DigitsValue(s) ==
    IF s = << >> THEN 0
    ELSE 10 * DigitsValue(SubSeq(s, 1, Len(s) - 1)) + DigitVal(s[Len(s)])

Unsigned(s) == IF s # << >> /\ s[1] \in {"+", "-"} THEN Tail(s) ELSE s
SignOf(s) == IF s # << >> /\ s[1] = "-" THEN -1 ELSE 1
Without(s, c) == SelectSeq(s, LAMBDA x : x # c)

\* the position of the exponent marker of a float literal, 0 when it has none
ExpPos(s) ==
    LET E == {i \in 1..Len(s) : s[i] \in {"E", "e"}}
    IN IF E = {} THEN 0 ELSE CHOOSE i \in E : \A j \in E : i <= j

MantissaOf(s) == IF ExpPos(s) = 0 THEN s ELSE SubSeq(s, 1, ExpPos(s) - 1)
ExponentOf(s) == SubSeq(s, ExpPos(s) + 1, Len(s))

MantissaOK(m) ==
    LET u == Unsigned(m)
    IN /\ \A i \in 1..Len(u) : u[i] \in Digits \cup {"."}
       /\ Cardinality({i \in 1..Len(u) : u[i] = "."}) <= 1
       /\ \E i \in 1..Len(u) : u[i] \in Digits

ExponentOK(e) ==
    LET u == Unsigned(e)
    IN u # << >> /\ \A i \in 1..Len(u) : u[i] \in Digits

\* whether float(s) returns; otherwise it raises ValueError.  The decimal
\* literals of Python's float(): [sign] digits [. digits] [(e|E) [sign] digits]
IsFloatLiteral(s) ==
    /\ MantissaOK(MantissaOf(s))
    /\ ExpPos(s) # 0 => ExponentOK(ExponentOf(s))

\* the value float(s) returns for a literal s
FloatValue(s) ==
    LET u    == Unsigned(MantissaOf(s))
        dot  == {i \in 1..Len(u) : u[i] = "."}
        frac == IF dot = {} THEN 0 ELSE Len(u) - (CHOOSE i \in dot : TRUE)
        m    == SignOf(MantissaOf(s)) * DigitsValue(Without(u, "."))
        e    == IF ExpPos(s) = 0 THEN 0
                ELSE SignOf(ExponentOf(s)) * DigitsValue(Unsigned(ExponentOf(s)))
        x    == e - frac
    IN IF x >= 0 THEN F(m * Pow(10, x), 1) ELSE F(m, Pow(10, -x))

\* float(v.replace("D", "E")) of line 64
ConvertToken(v) ==
    LET t == Replace(v, "D", "E")
    IN IF IsFloatLiteral(t) THEN [err |-> "none", val |-> FloatValue(t)]
       ELSE [err |-> "ValueError"]

-----------------------------------------------------------------------------
(* run_ngspice.py: parse_printed_table *)

TokIndex == <<"I", "n", "d", "e", "x">>
TokTime == <<"t", "i", "m", "e">>

\* line 38: line.strip().startswith("Index") and "time" in line
IsHeaderLine(line) ==
    /\ line # << >>
    /\ StartsWith(line[1], TokIndex)
    /\ \E j \in 1..Len(line) : Contains(line[j], TokTime)

\* lines 36-40: the index of the first header line, 0 for None
HeaderIdx(lines) ==
    LET H == {i \in 1..Len(lines) : IsHeaderLine(lines[i])}
    IN IF H = {} THEN 0 ELSE CHOOSE i \in H : \A j \in H : i <= j

\* lines 46-52: the rows kept from lines[from..], cut to the header's width
RECURSIVE DataLines(_, _, _)
DataLines(lines, from, width) ==
    IF from > Len(lines) THEN << >>
    ELSE LET line == lines[from]
         IN IF line = << >> THEN << >>
            ELSE IF StartsWith(line[1], TokIndex) THEN << >>
            ELSE IF Len(line) < width THEN DataLines(lines, from + 1, width)
            ELSE <<SubSeq(line, 1, width)>> \o DataLines(lines, from + 1, width)

\* the keys of {h: [] for h in headers}, in insertion order
RECURSIVE DictKeys(_)
DictKeys(headers) ==
    IF headers = << >> THEN << >>
    ELSE LET rest == DictKeys(SubSeq(headers, 1, Len(headers) - 1))
             h    == headers[Len(headers)]
         IN IF \E i \in 1..Len(rest) : rest[i] = h THEN rest ELSE Append(rest, h)

\* lines 63-64: for h, v in zip(headers, row): col_data[h].append(float(...))
RECURSIVE ZipAppend(_, _, _, _)
ZipAppend(col_data, headers, row, j) ==
    IF j > Len(headers) \/ j > Len(row) THEN col_data
    ELSE ZipAppend([col_data EXCEPT ![headers[j]] = Append(@, ConvertToken(row[j]).val)],
                   headers, row, j + 1)

\* lines 62-64: for row in data_lines
RECURSIVE FillColumns(_, _, _, _)
FillColumns(col_data, headers, data_lines, r) ==
    IF r > Len(data_lines) THEN col_data
    ELSE FillColumns(ZipAppend(col_data, headers, data_lines[r], 1),
                     headers, data_lines, r + 1)

NoFile == [written |-> FALSE]

\* parse_printed_table: what it raises or returns and the files it leaves
parse_printed_table(lines) ==
    LET header_idx == HeaderIdx(lines)
    IN IF header_idx = 0
       THEN [err |-> "RuntimeError", csv |-> NoFile, json |-> NoFile]
       ELSE LET headers    == lines[header_idx]
                data_lines == DataLines(lines, header_idx + 1, Len(headers))
                csv        == [written |-> TRUE, header |-> headers, rows |-> data_lines]
                bad        == \E r \in 1..Len(data_lines) : \E j \in 1..Len(headers) :
                                  ConvertToken(data_lines[r][j]).err # "none"
            IN IF bad
               THEN [err |-> "ValueError", csv |-> csv, json |-> NoFile]
               ELSE [err |-> "none", csv |-> csv,
                     json |-> [written |-> TRUE,
                               keys |-> DictKeys(headers),
                               cols |-> FillColumns(
                                   [h \in {headers[j] : j \in 1..Len(headers)} |-> << >>],
                                   headers, data_lines, 1)]]

-----------------------------------------------------------------------------
(* The simulator texts the parser is run on *)

TokIndexes == TokIndex \o <<"e", "s">>
TokRuntime == <<"r", "u", "n">> \o TokTime
TokV == <<"V">>
TokTotal == <<"T", "o", "t", "a", "l">>
TokAnalysis == <<"a", "n", "a", "l", "y", "s", "i", "s">>

LinePool ==
    { <<TokIndex, TokTime, TokV>>,              \* Index time V
      <<TokIndex, TokTime, TokV, TokV>>,        \* Index time V V
      <<TokIndexes, TokRuntime>>,               \* Indexes runtime
      <<TokIndex, TokV>>,                       \* Index V
      << >>,                                    \* a blank line
      <<<<"0">>, <<"0">>, <<"1">>>>,            \* 0 0 1
      <<<<"1">>, <<"1">>, <<"2", "D", "1">>, <<"2">>>>,   \* 1 1 2D1 2
      <<<<"1">>, <<"1">>>>,                     \* 1 1
      <<<<"2">>, <<"2">>, <<"x">>>>,            \* 2 2 x
      <<TokTotal, TokAnalysis, TokTime, <<"1">>>> }       \* Total analysis time 1

Texts == UNION {[1..n -> LinePool] : n \in 0..MaxLines}

Idle == << >>

InitParse ==
    /\ stage = "parse"
    /\ pc = "ready"
    /\ out_txt \in Texts
    /\ csv_file = NoFile
    /\ json_file = NoFile
    /\ parse_ret = Idle
    /\ simdata = Idle /\ mapping = Idle /\ sensors = Idle
    /\ d = Idle /\ rows = Idle
    /\ series = Idle /\ window_size = 0 /\ step = 0 /\ wf_out = Idle
    /\ signals = Idle /\ fv_out = Idle /\ feats = Idle
    /\ scipy_legacy = FALSE

\* python run_ngspice.py, after ngspice wrote out_txt
CallParsePrintedTable ==
    /\ stage = "parse" /\ pc = "ready"
    /\ LET r == parse_printed_table(out_txt)
       IN /\ csv_file' = r.csv
          /\ json_file' = r.json
          /\ parse_ret' = [err |-> r.err]
    /\ pc' = "done"
    /\ UNCHANGED <<stage, out_txt, simdata, mapping, sensors, d, rows, series,
                   window_size, step, wf_out, signals, fv_out, feats, scipy_legacy>>

NextParse == CallParsePrintedTable

SpecParse == InitParse /\ [][NextParse]_vars

-----------------------------------------------------------------------------
(* sensor_emulator.py *)

\* np.random.randn draws, in units of one standard deviation
Noise == {FInt(-1), FInt(1)}

\* arr[lo] + ... + arr[hi], summed pairwise
RECURSIVE SumRange(_, _, _)
SumRange(arr, lo, hi) ==
    IF lo > hi THEN FInt(0)
    ELSE IF lo = hi THEN arr[lo]
    ELSE LET mid == (lo + hi) \div 2
         IN FAdd(SumRange(arr, lo, mid), SumRange(arr, mid + 1, hi))

ArrSum(arr) == SumRange(arr, 1, Len(arr))

\* arr.mean(): NaN (and a warning, no exception) for an empty array
ArrMean(arr) == IF Len(arr) = 0 THEN NaN ELSE FMul(ArrSum(arr), F(1, Len(arr)))

\* np.zeros_like(np.array(simdata['time']))
ZerosLike(arr) == [i \in 1..Len(arr) |-> FInt(0)]

\* lines 20-26; rnd holds the len(v) draws of np.random.randn(len(v))
emulate_zmpt(sim, voltage_node_key, rnd) ==
    LET v == sim[voltage_node_key]
    IN [i \in 1..Len(v) |->
           FAdd(FAdd(F(15, 10), FMul(F(6, 1000), v[i])), FMul(F(1, 100), rnd[i]))]

\* lines 28-34, with the defaults vcc=3.3 and sensitivity=0.066
emulate_acs(sim, current_key, rnd) ==
    LET i_ == sim[current_key]
    IN [j \in 1..Len(i_) |->
           FAdd(FAdd(F(33, 20), FMul(F(66, 1000), i_[j])), FMul(F(1, 100), rnd[j]))]

\* lines 36-50
emulate_ntc(sim, temp_node_key) ==
    LET temps == IF temp_node_key \notin DOMAIN sim
                 THEN [j \in 1..Len(sim["time"]) |->
                          FAdd(FInt(30), FMul(F(1, 100), sim["time"][j]))]
                 ELSE LET arr == sim[temp_node_key]
                      IN [j \in 1..Len(arr) |->
                             FAdd(FInt(25), FMul(FSub(arr[j], ArrMean(arr)), FInt(5)))]
    IN [j \in 1..Len(temps) |->
           FAdd(F(165, 100), FMul(FSub(temps[j], FInt(25)), F(1, 100)))]

\* lines 59-61: s after the first n samples of env
RECURSIVE Envelope(_, _)
Envelope(env, n) ==
    IF n = 0 THEN FInt(0)
    ELSE FAdd(FMul(F(5, 100), env[n]), FMul(FSub(FInt(1), F(5, 100)), Envelope(env, n - 1)))

\* lines 52-63; rnd holds one np.random.randn() per sample
emulate_piezo(sim, piezo_key, rnd) ==
    LET arr == IF piezo_key \in DOMAIN sim THEN sim[piezo_key] ELSE ZerosLike(sim["time"])
        env == [j \in 1..Len(arr) |-> FAbs(arr[j])]
    IN [j \in 1..Len(env) |-> FAdd(Envelope(env, j), FMul(F(5, 1000), rnd[j]))]

\* lines 65-68
emulate_relay(sim, relay_key) ==
    IF relay_key \in DOMAIN sim THEN sim[relay_key] ELSE ZerosLike(sim["time"])

MapKeys == {"voltage_node_key", "current_key", "temp_node_key", "piezo_key", "relay_key"}

\* lines 74-80
DefaultMapping ==
    [voltage_node_key |-> "V(n_ac)", current_key |-> "I(V1)",
     temp_node_key |-> "V(n_therm)", piezo_key |-> "V(n_piezo)",
     relay_key |-> "V(n_relay)"]

\* the output key run_emulator writes each mapping key's channel under
GpioOf(mk) ==
    CASE mk = "voltage_node_key" -> "GPIO34"
      [] mk = "current_key" -> "GPIO35"
      [] mk = "temp_node_key" -> "GPIO32"
      [] mk = "piezo_key" -> "GPIO33"
      [] mk = "relay_key" -> "GPIO26"

\* lines 73-80: the mapping in force
EffectiveMapping(m) == IF m.none THEN DefaultMapping ELSE m.dict

\* `mapping.get(mk) in simdata` of lines 83-91
SourcePresent(sim, m, mk) ==
    /\ mk \in DOMAIN EffectiveMapping(m)
    /\ EffectiveMapping(m)[mk] \in DOMAIN sim

\* the number of draws a channel takes from the random stream
DrawsOf(sim, m, mk) ==
    IF mk \in {"voltage_node_key", "current_key", "piezo_key"} /\ SourcePresent(sim, m, mk)
    THEN Len(sim[EffectiveMapping(m)[mk]]) ELSE 0

DrawsNeeded(sim, m) ==
    DrawsOf(sim, m, "voltage_node_key") + DrawsOf(sim, m, "current_key")
        + DrawsOf(sim, m, "piezo_key")

\* the n draws that follow the first `off` draws of the stream
Draw(stream, off, n) == [j \in 1..n |-> stream[off + j]]

\* outdict with the relay channel written whether or not its source exists
\* (all zeros over the time axis when it does not)
run_emulator_relay_always(sim, m, stream) ==
    LET mp   == EffectiveMapping(m)
        have == {mk \in MapKeys : SourcePresent(sim, m, mk)}
        tm   == IF "time" \in DOMAIN sim THEN sim["time"] ELSE << >>
        n1   == DrawsOf(sim, m, "voltage_node_key")
        n2   == DrawsOf(sim, m, "current_key")
        n3   == DrawsOf(sim, m, "piezo_key")
    IN [key \in {"time", "GPIO26"} \cup {GpioOf(mk) : mk \in have} |->
          CASE key = "time" -> tm
            [] key = "GPIO34" ->
                 emulate_zmpt(sim, mp["voltage_node_key"], Draw(stream, 0, n1))
            [] key = "GPIO35" ->
                 emulate_acs(sim, mp["current_key"], Draw(stream, n1, n2))
            [] key = "GPIO32" -> emulate_ntc(sim, mp["temp_node_key"])
            [] key = "GPIO33" ->
                 emulate_piezo(sim, mp["piezo_key"], Draw(stream, n1 + n2, n3))
            [] key = "GPIO26" ->
                 IF SourcePresent(sim, m, "relay_key") THEN sim[mp["relay_key"]]
                 ELSE ZerosLike(tm)]

\* lines 70-95: outdict, given the stream of draws the calls consume in order
run_emulator(sim, m, stream) ==
    LET mp   == EffectiveMapping(m)
        have == {mk \in MapKeys : SourcePresent(sim, m, mk)}
        n1   == DrawsOf(sim, m, "voltage_node_key")
        n2   == DrawsOf(sim, m, "current_key")
        n3   == DrawsOf(sim, m, "piezo_key")
    IN [key \in {"time"} \cup {GpioOf(mk) : mk \in have} |->
          CASE key = "time" -> (IF "time" \in DOMAIN sim THEN sim["time"] ELSE << >>)
            [] key = "GPIO34" ->
                 emulate_zmpt(sim, mp["voltage_node_key"], Draw(stream, 0, n1))
            [] key = "GPIO35" ->
                 emulate_acs(sim, mp["current_key"], Draw(stream, n1, n2))
            [] key = "GPIO32" -> emulate_ntc(sim, mp["temp_node_key"])
            [] key = "GPIO33" ->
                 emulate_piezo(sim, mp["piezo_key"], Draw(stream, n1 + n2, n3))
            [] key = "GPIO26" -> emulate_relay(sim, mp["relay_key"])]

-----------------------------------------------------------------------------
(* The tables and mappings the emulator is run on *)

\* the first n samples of two waveforms
Wave1(n) == [j \in 1..n |-> IF j % 2 = 1 THEN FInt(2) ELSE FInt(-1)]
Wave2(n) == [j \in 1..n |-> F(-3 * j, 2)]
ColSeqs == {Wave1(n) : n \in 0..MaxSamples} \cup {Wave2(n) : n \in 0..MaxSamples}

ColNames == {"time", "V(n_ac)", "I(V1)"}

SimTables == UNION {[K -> ColSeqs] : K \in SUBSET ColNames}

Mappings ==
    { [none |-> TRUE, dict |-> << >>],
      [none |-> FALSE, dict |-> << >>],
      [none |-> FALSE, dict |-> [mk \in MapKeys |-> "V(n_ac)"]],
      [none |-> FALSE, dict |-> [mk \in MapKeys |-> "I(V1)"]],
      [none |-> FALSE,
       dict |-> [voltage_node_key |-> "I(V1)", current_key |-> "V(n_ac)",
                 temp_node_key |-> "time", piezo_key |-> "V(n_piezo)",
                 relay_key |-> "time"]] }

InitEmu ==
    /\ stage = "emu"
    /\ pc = "ready"
    /\ simdata \in SimTables
    /\ mapping \in Mappings
    /\ sensors = Idle
    /\ out_txt = Idle /\ csv_file = NoFile /\ json_file = NoFile /\ parse_ret = Idle
    /\ d = Idle /\ rows = Idle
    /\ series = Idle /\ window_size = 0 /\ step = 0 /\ wf_out = Idle
    /\ signals = Idle /\ fv_out = Idle /\ feats = Idle
    /\ scipy_legacy = FALSE

\* python sensor_emulator.py
CallRunEmulator ==
    /\ stage = "emu" /\ pc = "ready"
    /\ \E stream \in [1..DrawsNeeded(simdata, mapping) -> Noise] :
           sensors' = run_emulator(simdata, mapping, stream)
    /\ pc' = "done"
    /\ UNCHANGED <<stage, out_txt, csv_file, json_file, parse_ret, simdata, mapping,
                   d, rows, series, window_size, step, wf_out, signals, fv_out,
                   feats, scipy_legacy>>

NextEmu == CallRunEmulator

SpecEmu == InitEmu /\ [][NextEmu]_vars

-----------------------------------------------------------------------------
(* unify_logger.py *)

None == [k |-> "None"]

\* rows that carry 0.0, not null, past the end of a short channel
unify_zero_fill(sf) ==
    LET t    == sf["time"]
        keys == DOMAIN sf \ {"time"}
    IN [i \in 1..Len(t) |->
          [key \in {"time"} \cup keys |->
              IF key = "time" THEN t[i]
              ELSE IF i <= Len(sf[key]) THEN sf[key][i] ELSE FInt(0)]]

\* lines 9-21: the rows list
unify(sf) ==
    LET t    == sf["time"]
        keys == DOMAIN sf \ {"time"}
    IN [i \in 1..Len(t) |->
          [key \in {"time"} \cup keys |->
              IF key = "time" THEN t[i]
              ELSE IF i <= Len(sf[key]) THEN sf[key][i] ELSE None]]

GpioNames == {"GPIO34", "GPIO35"}

SensorFrames ==
    UNION {[{"time"} \cup K -> ColSeqs] : K \in SUBSET GpioNames}

InitUnify ==
    /\ stage = "unify"
    /\ pc = "ready"
    /\ d \in SensorFrames
    /\ rows = Idle
    /\ out_txt = Idle /\ csv_file = NoFile /\ json_file = NoFile /\ parse_ret = Idle
    /\ simdata = Idle /\ mapping = Idle /\ sensors = Idle
    /\ series = Idle /\ window_size = 0 /\ step = 0 /\ wf_out = Idle
    /\ signals = Idle /\ fv_out = Idle /\ feats = Idle
    /\ scipy_legacy = FALSE

\* python unify_logger.py
CallUnify ==
    /\ stage = "unify" /\ pc = "ready"
    /\ rows' = unify(d)
    /\ pc' = "done"
    /\ UNCHANGED <<stage, out_txt, csv_file, json_file, parse_ret, simdata, mapping,
                   sensors, d, series, window_size, step, wf_out, signals, fv_out,
                   feats, scipy_legacy>>

NextUnify == CallUnify

SpecUnify == InitUnify /\ [][NextUnify]_vars

-----------------------------------------------------------------------------
(* features.py *)

FDiv(a, b) == F(a.num * b.den, a.den * b.num)

\* np.sqrt of a non-negative value, kept symbolically
Sqrt(a) == [k |-> "sqrt", arg |-> a]

\* np.mean of a non-empty array
Mean(arr) == FMul(ArrSum(arr), F(1, Len(arr)))

\* the biased central moment of order p (scipy.stats.moment)
Moment(arr, p) ==
    LET mu == Mean(arr)
    IN Mean([i \in 1..Len(arr) |->
                LET dv == FSub(arr[i], mu)
                IN IF p = 2 THEN FMul(dv, dv)
                   ELSE IF p = 3 THEN FMul(dv, FMul(dv, dv))
                   ELSE FMul(FMul(dv, dv), FMul(dv, dv))])

ArrMax(arr) == CHOOSE x \in {arr[i] : i \in 1..Len(arr)} :
                   \A j \in 1..Len(arr) : ~FLess(x, arr[j])
ArrMin(arr) == CHOOSE x \in {arr[i] : i \in 1..Len(arr)} :
                   \A j \in 1..Len(arr) : ~FLess(arr[j], x)

\* scipy.stats.skew(arr): m3 / m2**1.5; for a constant array NaN, and 0 in
\* the scipy releases that predate the NaN-on-constant rule
Skew(arr, legacy) ==
    LET m2 == Moment(arr, 2)
    IN IF m2.num = 0 THEN (IF legacy THEN FInt(0) ELSE NaN)
       ELSE [k |-> "skew", m3 |-> Moment(arr, 3), m2 |-> m2]

\* scipy.stats.kurtosis(arr): m4 / m2**2 - 3; for a constant array NaN, and
\* 0 - 3 in the scipy releases that predate the NaN-on-constant rule
Kurtosis(arr, legacy) ==
    LET m2 == Moment(arr, 2)
    IN IF m2.num = 0 THEN (IF legacy THEN FInt(-3) ELSE NaN)
       ELSE FSub(FDiv(Moment(arr, 4), FMul(m2, m2)), FInt(3))

StatNames == {"mean", "std", "max", "min", "rms", "skew", "kurt"}

\* lines 14-24; np.max of an empty array raises ValueError
extract_basic_stats(arr, legacy) ==
    IF Len(arr) = 0 THEN [err |-> "ValueError"]
    ELSE [err |-> "none",
          stats |-> [mean |-> Mean(arr),
                     std  |-> Sqrt(Moment(arr, 2)),
                     max  |-> ArrMax(arr),
                     min  |-> ArrMin(arr),
                     rms  |-> Sqrt(Mean([i \in 1..Len(arr) |-> FMul(arr[i], arr[i])])),
                     skew |-> Skew(arr, legacy),
                     kurt |-> Kurtosis(arr, legacy)]]

\* range(start, stop, st) for st > 0, as the sequence of its values
PyRange(start, stop, st) ==
    LET cnt == IF stop <= start THEN 0 ELSE (stop - start + st - 1) \div st
    IN [j \in 1..cnt |-> start + (j - 1) * st]

\* a slice that loses its last element
PySliceShort(seq, a, b) == SubSeq(seq, a + 1, IF b - 1 < Len(seq) THEN b - 1 ELSE Len(seq))

\* seq[a:b] for 0 <= a <= b
PySlice(seq, a, b) == SubSeq(seq, a + 1, IF b < Len(seq) THEN b ELSE Len(seq))

\* the window starts with the last full window left out
WindowStartsNoLast(ser, w, st) == PyRange(0, Len(ser) - w, st)

\* line 9: the window starts
WindowStarts(ser, w, st) == PyRange(0, Len(ser) - w + 1, st)

\* lines 6-12
windowed_features(ser, w, st, legacy) ==
    LET starts == WindowStarts(ser, w, st)
        X == [j \in 1..Len(starts) |->
                 extract_basic_stats(PySlice(ser, starts[j], starts[j] + w), legacy)]
    IN IF \E j \in 1..Len(X) : X[j].err # "none"
       THEN [err |-> "ValueError"]
       ELSE [err |-> "none", X |-> [j \in 1..Len(X) |-> X[j].stats]]

\* f"{name}_{k}"
FeatureKey(name, st) == name \o "_" \o st

\* lines 26-33
signals_to_feature_vector(sig, legacy) ==
    IF \E name \in DOMAIN sig : extract_basic_stats(sig[name], legacy).err # "none"
    THEN [err |-> "ValueError"]
    ELSE LET pairs == (DOMAIN sig) \X StatNames
         IN [err |-> "none",
             features |->
                 [key \in {FeatureKey(p[1], p[2]) : p \in pairs} |->
                     LET p == CHOOSE q \in pairs : FeatureKey(q[1], q[2]) = key
                     IN extract_basic_stats(sig[p[1]], legacy).stats[p[2]]]]

-----------------------------------------------------------------------------
(* predict.py *)

\* lines 14-18
signal_map == [GPIO34 |-> "GPIO34", GPIO35 |-> "GPIO35", GPIO33 |-> "GPIO33"]

\* line 25: np.nan_to_num(arr, nan=0.0, posinf=0.0, neginf=0.0)
NanToNum(arr) == [i \in 1..Len(arr) |-> IF IsFinite(arr[i]) THEN arr[i] ELSE FInt(0)]

\* lines 20-28
SpiceSignals(u) ==
    LET kept == {key \in DOMAIN signal_map : key \in DOMAIN u /\ Len(u[key]) > 0}
    IN [alias \in {signal_map[key] : key \in kept} |->
           NanToNum(u[CHOOSE key \in kept : signal_map[key] = alias])]

\* lines 37-46, on the flat mapping of floats it is given
sanitize_json(fd) == [key \in DOMAIN fd |-> IF IsFinite(fd[key]) THEN fd[key] ELSE FInt(0)]

\* lines 20-48: feats as posted to the prediction server
Predict(u, legacy) ==
    IF DOMAIN SpiceSignals(u) = {} THEN [err |-> "RuntimeError"]
    ELSE LET fv == signals_to_feature_vector(SpiceSignals(u), legacy)
         IN IF fv.err # "none" THEN fv
            ELSE [err |-> "none", features |-> sanitize_json(fv.features)]

-----------------------------------------------------------------------------
(* The series and channel arrays the feature extractor is run on *)

FeatVals == {FInt(1), FInt(3)}

SmallSeries == UNION {[1..n -> FeatVals] : n \in 0..MaxLen}

\* the series lengths and the window parameters of the worked example
BigSeries ==
    UNION { {[i \in 1..n |-> FInt(1)], [i \in 1..n |-> IF i % 2 = 1 THEN FInt(1) ELSE FInt(3)]}
            : n \in {90, 250} }

WindowSizes == (1..MaxWin) \cup {100}
Steps == (1..MaxStep) \cup {50}

SignalMaps == UNION {[K -> SmallSeries] : K \in SUBSET GpioNames}

InitWF ==
    /\ stage = "wf"
    /\ pc = "ready"
    /\ series \in SmallSeries \cup BigSeries
    /\ window_size \in WindowSizes
    /\ step \in Steps
    /\ scipy_legacy \in BOOLEAN
    /\ wf_out = Idle
    /\ out_txt = Idle /\ csv_file = NoFile /\ json_file = NoFile /\ parse_ret = Idle
    /\ simdata = Idle /\ mapping = Idle /\ sensors = Idle
    /\ d = Idle /\ rows = Idle
    /\ signals = Idle /\ fv_out = Idle /\ feats = Idle

InitFV ==
    /\ stage \in {"fv", "predict"}
    /\ pc = "ready"
    /\ signals \in SignalMaps
    /\ scipy_legacy \in BOOLEAN
    /\ fv_out = Idle /\ feats = Idle
    /\ out_txt = Idle /\ csv_file = NoFile /\ json_file = NoFile /\ parse_ret = Idle
    /\ simdata = Idle /\ mapping = Idle /\ sensors = Idle
    /\ d = Idle /\ rows = Idle
    /\ series = Idle /\ window_size = 0 /\ step = 0 /\ wf_out = Idle

\* a call of windowed_features(series, window_size, step)
CallWindowedFeatures ==
    /\ stage = "wf" /\ pc = "ready"
    /\ wf_out' = windowed_features(series, window_size, step, scipy_legacy)
    /\ pc' = "done"
    /\ UNCHANGED <<stage, out_txt, csv_file, json_file, parse_ret, simdata, mapping,
                   sensors, d, rows, series, window_size, step, signals, fv_out,
                   feats, scipy_legacy>>

\* a call of signals_to_feature_vector(signals), as generate_dataset.py makes it
CallSignalsToFeatureVector ==
    /\ stage = "fv" /\ pc = "ready"
    /\ fv_out' = signals_to_feature_vector(signals, scipy_legacy)
    /\ pc' = "done"
    /\ UNCHANGED <<stage, out_txt, csv_file, json_file, parse_ret, simdata, mapping,
                   sensors, d, rows, series, window_size, step, wf_out, signals,
                   feats, scipy_legacy>>

\* python predict.py, up to the request it posts
CallPredict ==
    /\ stage = "predict" /\ pc = "ready"
    /\ feats' = Predict(signals, scipy_legacy)
    /\ pc' = "done"
    /\ UNCHANGED <<stage, out_txt, csv_file, json_file, parse_ret, simdata, mapping,
                   sensors, d, rows, series, window_size, step, wf_out, signals,
                   fv_out, scipy_legacy>>

InitFeat == InitWF \/ InitFV

NextFeat == CallWindowedFeatures \/ CallSignalsToFeatureVector \/ CallPredict

SpecFeat == InitFeat /\ [][NextFeat]_vars

-----------------------------------------------------------------------------
(* The whole pipeline: any one entry point, on any of its inputs *)

Init == InitParse \/ InitEmu \/ InitUnify \/ InitFeat

Next == NextParse \/ NextEmu \/ NextUnify \/ NextFeat

Spec == Init /\ [][Next]_vars

-----------------------------------------------------------------------------
(* Properties of the Windowed Feature Extractor *)

WFDone == stage = "wf" /\ pc = "done"

\* the statistic set of the w samples series[start .. start+w-1] (start from 0)
StatsOfWindow(start, w) ==
    extract_basic_stats([i \in 1..w |-> series[start + i]], scipy_legacy).stats

\* C1 as stated: with window_size=100 and step=50, a series of 250 samples
\* yields exactly 3 statistic sets, for the window starts 0, 50 and 100, and
\* a series of 90 samples yields none.
C1_ThreeWindows ==
    (WFDone /\ window_size = 100 /\ step = 50) =>
        /\ Len(series) = 250 =>
              /\ wf_out.err = "none"
              /\ Len(wf_out.X) = 3
              /\ \A j \in 1..3 : wf_out.X[j] = StatsOfWindow(50 * (j - 1), 100)
        /\ Len(series) = 90 => wf_out = [err |-> "none", X |-> << >>]

\* C1 amended: with window_size=100 and step=50, a series of 250 samples
\* yields exactly 4 statistic sets, for the window starts 0, 50, 100 and 150
\* (the last window is samples 150..249), and a series of 90 samples yields
\* none.
C1_FourWindows ==
    (WFDone /\ window_size = 100 /\ step = 50) =>
        /\ Len(series) = 250 =>
              /\ wf_out.err = "none"
              /\ Len(wf_out.X) = 4
              /\ \A j \in 1..4 : wf_out.X[j] = StatsOfWindow(50 * (j - 1), 100)
        /\ Len(series) = 90 => wf_out = [err |-> "none", X |-> << >>]

\* windowed_features has returned four statistic sets for a 250-sample series
C1_Witness ==
    /\ WFDone /\ window_size = 100 /\ step = 50
    /\ Len(series) = 250
    /\ wf_out.err = "none" /\ Len(wf_out.X) = 4

\* C2: for every series length n, window_size w >= 1 and step s >= 1,
\* windowed_features raises nothing and returns one statistic set per window
\* start in {0, s, 2s, ...} with start <= n - w, in increasing start order,
\* each computed over exactly the w samples series[start .. start+w-1]; the
\* result is empty when n < w.
C2_OneSetPerWindow ==
    WFDone =>
        LET n   == Len(series)
            cnt == IF n < window_size THEN 0 ELSE (n - window_size) \div step + 1
        IN /\ wf_out.err = "none"
           /\ Len(wf_out.X) = cnt
           /\ \A j \in 1..cnt :
                  wf_out.X[j] = StatsOfWindow((j - 1) * step, window_size)

\* a run with at least two windows whose last start is exactly n - w
C2_Witness ==
    /\ WFDone
    /\ wf_out.err = "none" /\ Len(wf_out.X) >= 2
    /\ step > 1
    /\ (Len(series) - window_size) % step = 0

\* C3: no feature value that leaves the feature extractor is NaN or
\* infinite: every value of every statistic set windowed_features returns and
\* every value of the mapping signals_to_feature_vector returns is finite
\* (a statistic that evaluates to NaN is stored as 0.0).
C3_FeaturesFinite ==
    /\ (WFDone /\ wf_out.err = "none") =>
           \A j \in 1..Len(wf_out.X) : \A st \in StatNames : IsFinite(wf_out.X[j][st])
    /\ (stage = "fv" /\ pc = "done" /\ fv_out.err = "none") =>
           \A key \in DOMAIN fv_out.features : IsFinite(fv_out.features[key])

-----------------------------------------------------------------------------
(* Properties of the Transient Table Parser *)

ParseDone == stage = "parse" /\ pc = "done"

\* a header line in the words of the specification: the first token is the
\* literal Index and some token is the literal time
IsHeaderByToken(line) ==
    /\ line # << >>
    /\ line[1] = TokIndex
    /\ \E j \in 1..Len(line) : line[j] = TokTime

\* C4: parse_printed_table fails with NoTableFound, leaving no output,
\* exactly when the text has no line whose first token is the literal Index
\* and which contains the token time.
C4_NoTableFoundExactly ==
    ParseDone =>
        /\ parse_ret.err = "RuntimeError" <=>
               ~ \E i \in 1..Len(out_txt) : IsHeaderByToken(out_txt[i])
        /\ parse_ret.err = "RuntimeError" => (csv_file = NoFile /\ json_file = NoFile)

\* a row the specification keeps under a header of the given width: enough
\* tokens, each a number once D is replaced by E
IsValidRow(line, width) ==
    /\ Len(line) >= width
    /\ \A j \in 1..width : ConvertToken(line[j]).err = "none"

\* the lines after the header up to the first blank or Index line
RECURSIVE RowRegion(_, _)
RowRegion(lines, from) ==
    IF from > Len(lines) THEN << >>
    ELSE IF lines[from] = << >> \/ StartsWith(lines[from][1], TokIndex) THEN << >>
    ELSE <<lines[from]>> \o RowRegion(lines, from + 1)

\* the column of position j over the valid rows among `region`
ColumnOf(region, j, width) ==
    LET valid == SelectSeq(region, LAMBDA line : IsValidRow(line, width))
    IN [r \in 1..Len(valid) |-> ConvertToken(valid[r][j]).val]

\* the header positions whose name no other position carries
UniquePositions(headers) ==
    {j \in 1..Len(headers) : \A i \in 1..Len(headers) : headers[i] = headers[j] => i = j}

\* C5: a malformed data row is never fatal: rows with fewer tokens than the
\* header has columns and rows with a token that is not a number after D->E
\* are dropped whole, the parse completes normally, and the RawTable holds
\* exactly the remaining rows in order.  (Stated for a header line that is
\* one by its tokens and for the columns whose name is unique in it; other
\* header lines are the subject of C4, repeated names of C6.)
C5_MalformedRowNeverFatal ==
    (ParseDone /\ HeaderIdx(out_txt) # 0
       /\ IsHeaderByToken(out_txt[HeaderIdx(out_txt)])) =>
        LET headers == out_txt[HeaderIdx(out_txt)]
            region  == RowRegion(out_txt, HeaderIdx(out_txt) + 1)
        IN /\ parse_ret.err = "none"
           /\ json_file.written
           /\ \A j \in UniquePositions(headers) :
                  json_file.cols[headers[j]] = ColumnOf(region, j, Len(headers))

\* C6: for every header with k column tokens, repeated names included, the
\* RawTable of a parse that completed has k entries, one per header position,
\* and the entry for position j holds the j-th token of each retained row in
\* row order.
C6_ColumnsByPosition ==
    (ParseDone /\ parse_ret.err = "none") =>
        LET headers == out_txt[HeaderIdx(out_txt)]
            kept    == csv_file.rows
        IN /\ Len(json_file.keys) = Len(headers)
           /\ \A j \in 1..Len(headers) :
                  json_file.cols[headers[j]] =
                      [r \in 1..Len(kept) |-> ConvertToken(kept[r][j]).val]

\* a terminating line in the words of the specification: blank, first token
\* Index, or beginning with the end-of-analysis marker `Total analysis time`
IsTerminator(line) ==
    \/ line = << >>
    \/ line[1] = TokIndex
    \/ (Len(line) >= 3 /\ SubSeq(line, 1, 3) = <<TokTotal, TokAnalysis, TokTime>>)

RECURSIVE RowsBeforeTerminator(_, _)
RowsBeforeTerminator(lines, from) ==
    IF from > Len(lines) THEN << >>
    ELSE IF IsTerminator(lines[from]) THEN << >>
    ELSE <<lines[from]>> \o RowsBeforeTerminator(lines, from + 1)

\* C10: after the header, rows are consumed only up to the first terminating
\* line (blank, first token Index, or an end-of-analysis marker); reaching it
\* raises no error and neither it nor any later line contributes a value.
\* (Stated for a header line that is one by its tokens, for texts whose rows
\* before the terminating line are all short or numeric, and for the columns
\* whose name is unique, so that the header lines C4, the rows C5 and the
\* names C6 are about play no part.)
C10_StopsAtTerminator ==
    (ParseDone /\ HeaderIdx(out_txt) # 0
       /\ IsHeaderByToken(out_txt[HeaderIdx(out_txt)])) =>
        LET headers == out_txt[HeaderIdx(out_txt)]
            region  == RowsBeforeTerminator(out_txt, HeaderIdx(out_txt) + 1)
        IN (\A r \in 1..Len(region) :
                Len(region[r]) < Len(headers) \/ IsValidRow(region[r], Len(headers)))
           => /\ parse_ret.err = "none"
              /\ json_file.written
              /\ \A j \in UniquePositions(headers) :
                     json_file.cols[headers[j]] = ColumnOf(region, j, Len(headers))

-----------------------------------------------------------------------------
(* Properties of the Row Unifier *)

UnifyDone == stage = "unify" /\ pc = "done"

\* C7: unify produces exactly len(time) records in time-index order; record
\* i holds time[i] and, for every other channel k, k[i] when i < len(k) and
\* an explicit null otherwise.
C7_UnifyRecords ==
    UnifyDone =>
        /\ Len(rows) = Len(d["time"])
        /\ \A i \in 1..Len(rows) :
              /\ DOMAIN rows[i] = DOMAIN d
              /\ rows[i]["time"] = d["time"][i]
              /\ \A key \in DOMAIN d \ {"time"} :
                    /\ i <= Len(d[key]) => rows[i][key] = d[key][i]
                    /\ i > Len(d[key]) => rows[i][key] = None

\* a channel shorter than the time axis: the last record carries a null
C7_Witness ==
    /\ UnifyDone
    /\ \E key \in DOMAIN d \ {"time"} :
          /\ 0 < Len(d[key]) /\ Len(d[key]) < Len(d["time"])
          /\ Len(rows) = Len(d["time"])
          /\ rows[1][key] = d[key][1]
          /\ rows[Len(rows)][key] = None

-----------------------------------------------------------------------------
(* Properties of the Sensor Emulation Layer *)

EmuDone == stage = "emu" /\ pc = "done"

\* the column the mapping in force configures for a channel is a key of the
\* RawTable
HasSource(mk) ==
    LET mp == IF mapping.none THEN DefaultMapping ELSE mapping.dict
    IN mk \in DOMAIN mp /\ mp[mk] \in DOMAIN simdata

SourceOf(mk) ==
    LET mp == IF mapping.none THEN DefaultMapping ELSE mapping.dict
    IN simdata[mp[mk]]

\* C8: for each of the five channels, run_emulator puts the channel's key in
\* the output if and only if the source column the mapping configures for it
\* is a key of the RawTable, and when present its array is as long as the
\* source column.
C8_ChannelIffSource ==
    EmuDone =>
        \A mk \in MapKeys :
            /\ GpioOf(mk) \in DOMAIN sensors <=> HasSource(mk)
            /\ HasSource(mk) => Len(sensors[GpioOf(mk)]) = Len(SourceOf(mk))

\* one channel emulated from a non-empty column while another is omitted
C8_Witness ==
    /\ EmuDone
    /\ \E mk \in MapKeys :
          HasSource(mk) /\ Len(SourceOf(mk)) > 0 /\ GpioOf(mk) \in DOMAIN sensors
    /\ \E mk \in MapKeys : ~HasSource(mk) /\ GpioOf(mk) \notin DOMAIN sensors

-----------------------------------------------------------------------------
(* Empty input *)

\* C9: every stage other than header location returns an empty output
\* structure, and raises no error, on zero-length input.  (The parser's case
\* is stated for a header followed by no row as wide as the header; rows
\* with non-numeric tokens are the subject of C5.)
C9_EmptyInputNeverFails ==
    /\ (ParseDone /\ HeaderIdx(out_txt) # 0 /\ csv_file.rows = << >>) =>
           /\ parse_ret.err = "none"
           /\ \A h \in DOMAIN json_file.cols : json_file.cols[h] = << >>
    /\ (EmuDone /\ \A c \in DOMAIN simdata : simdata[c] = << >>) =>
           \A key \in DOMAIN sensors : sensors[key] = << >>
    /\ (UnifyDone /\ d["time"] = << >>) => rows = << >>
    /\ (WFDone /\ series = << >>) => wf_out = [err |-> "none", X |-> << >>]
    /\ (stage = "fv" /\ pc = "done"
          /\ \A name \in DOMAIN signals : signals[name] = << >>) =>
           fv_out.err = "none"
=============================================================================
